---------------------------- MODULE Spec2Model ----------------------------
(***************************************************************************)
(* Local hybrid document search of enterprise-search:                      *)
(*   src/src/services/simpleEmbeddingService.ts  (SimpleEmbeddingService)  *)
(*   src/src/services/simpleDocumentService.ts   (SimpleDocumentService)   *)
(*                                                                         *)
(* Strings are TLA+ strings; a character is a string of length 1.          *)
(* Numbers of type double are held in fixed point: a similarity or a       *)
(* keyword score is a whole number of 1/Scale, a final score a whole       *)
(* number of 1/ScoreScale. 32-bit hash arithmetic is carried out on two    *)
(* 16-bit halves so that it wraps exactly as the int32 arithmetic of the   *)
(* source does.                                                            *)
(***************************************************************************)
EXTENDS Integers, Sequences, FiniteSets, TLC

(***************************************************************************)
(* Characters and strings                                                  *)
(***************************************************************************)
LowerLetters == "abcdefghijklmnopqrstuvwxyz"
UpperLetters == "ABCDEFGHIJKLMNOPQRSTUVWXYZ"
Digits == "0123456789"

CharAt(s, i) == SubSeq(s, i, i)

CharsOf(s) == { CharAt(s, i) : i \in 1..Len(s) }

LowerSet == CharsOf(LowerLetters)
UpperSet == CharsOf(UpperLetters)
DigitSet == CharsOf(Digits)

\* \w of a JavaScript regular expression: [A-Za-z0-9_]
WordCharSet == LowerSet \cup UpperSet \cup DigitSet \cup {"_"}

\* \s of a JavaScript regular expression, for the characters the model uses
WhitespaceSet == {" ", "\n", "\t", "\r"}

IndexIn(alphabet, c) == CHOOSE i \in 1..Len(alphabet) : CharAt(alphabet, i) = c

\* String.prototype.toLowerCase, one character
LowerTable == [c \in UpperSet |-> CharAt(LowerLetters, IndexIn(UpperLetters, c))]

ToLowerChar(c) == IF c \in UpperSet THEN LowerTable[c] ELSE c

\* String.prototype.toUpperCase, one character
UpperTable == [c \in LowerSet |-> CharAt(UpperLetters, IndexIn(LowerLetters, c))]

ToUpperChar(c) == IF c \in LowerSet THEN UpperTable[c] ELSE c

\* a string built character by character, by halves so that the depth of
\* the recursion stays logarithmic in the length
RECURSIVE MapChars(_, _, _, _)
MapChars(s, lo, hi, table) ==
    IF lo > hi THEN ""
    ELSE IF lo = hi
         THEN (IF CharAt(s, lo) \in DOMAIN table THEN table[CharAt(s, lo)] ELSE CharAt(s, lo))
         ELSE LET mid == (lo + hi) \div 2
              IN  MapChars(s, lo, mid, table) \o MapChars(s, mid + 1, hi, table)

ToLowerCase(s) == MapChars(s, 1, Len(s), LowerTable)

ToUpperCase(s) == MapChars(s, 1, Len(s), UpperTable)

\* String.prototype.charCodeAt for the characters a token can hold
CharCodeTable ==
    [c \in LowerSet \cup DigitSet \cup {"_"} |->
        IF c \in LowerSet THEN 96 + IndexIn(LowerLetters, c)
        ELSE IF c \in DigitSet THEN 47 + IndexIn(Digits, c)
        ELSE 95]

CharCode(c) == CharCodeTable[c]

\* String.prototype.includes
Includes(s, sub) ==
    \E i \in 0..(Len(s) - Len(sub)) : SubSeq(s, i + 1, i + Len(sub)) = sub

\* String.prototype.endsWith
EndsWith(s, suffix) ==
    /\ Len(s) >= Len(suffix)
    /\ SubSeq(s, Len(s) - Len(suffix) + 1, Len(s)) = suffix

RECURSIVE TrimStart(_)
TrimStart(s) ==
    IF s # "" /\ CharAt(s, 1) \in WhitespaceSet THEN TrimStart(SubSeq(s, 2, Len(s))) ELSE s

RECURSIVE TrimEnd(_)
TrimEnd(s) ==
    IF s # "" /\ CharAt(s, Len(s)) \in WhitespaceSet
    THEN TrimEnd(SubSeq(s, 1, Len(s) - 1)) ELSE s

\* a trim that removes nothing: a searchDocuments whose guard is !query
TrimNothing(s) == s

\* String.prototype.trim
Trim(s) == TrimEnd(TrimStart(s))

\* the indices 1..n that satisfy a test, in increasing order
Indices(n) == [i \in 1..n |-> i]

\* String.prototype.split on a regular expression class+ (one or more
\* separator characters): the pieces between the separator runs, and an
\* empty piece at either end when the string begins or ends with a separator.
Split(s, seps) ==
    LET n == Len(s)
        sep == [i \in 1..n |-> CharAt(s, i) \in seps]
        starts == SelectSeq(Indices(n), LAMBDA i : ~sep[i] /\ (i = 1 \/ sep[i - 1]))
        ends == SelectSeq(Indices(n), LAMBDA i : ~sep[i] /\ (i = n \/ sep[i + 1]))
        pieces == [k \in 1..Len(starts) |-> SubSeq(s, starts[k], ends[k])]
    IN  IF n = 0 THEN <<"">>
        ELSE (IF sep[1] THEN <<"">> ELSE <<>>)
             \o pieces
             \o (IF sep[n] THEN <<"">> ELSE <<>>)

\* replace(/[^\w\s]/g, ' ')
RECURSIVE ReplaceNonWord(_, _, _)
ReplaceNonWord(s, lo, hi) ==
    IF lo > hi THEN ""
    ELSE IF lo = hi
         THEN (IF CharAt(s, lo) \in WordCharSet \cup WhitespaceSet THEN CharAt(s, lo) ELSE " ")
         ELSE LET mid == (lo + hi) \div 2
              IN  ReplaceNonWord(s, lo, mid) \o ReplaceNonWord(s, mid + 1, hi)

SeqToSet(seq) == { seq[i] : i \in 1..Len(seq) }

\* [...new Set(seq)]: the first occurrence of every element, in order
Unique(seq) ==
    LET firsts == SelectSeq(Indices(Len(seq)),
                            LAMBDA i : \A j \in 1..(i - 1) : seq[j] # seq[i])
    IN  [k \in 1..Len(firsts) |-> seq[firsts[k]]]

\* Array.prototype.sort((a, b) => key(b) - key(a)), which is stable: an
\* element stands after every element with a larger key and after the
\* earlier elements with an equal key. keys[i] is the key of seq[i].
SortDescending(seq, keys) ==
    LET n == Len(seq)
        key == keys \o <<>>
        position == <<>> \o [i \in 1..n |->
                        Cardinality({j \in 1..n : key[j] > key[i]})
                        + Cardinality({j \in 1..(i - 1) : key[j] = key[i]}) + 1]
    IN  [k \in 1..n |-> seq[CHOOSE i \in 1..n : position[i] = k]]

(***************************************************************************)
(* SimpleEmbeddingService: constant tables                                 *)
(***************************************************************************)
stopWords ==
    {"the", "and", "or", "but", "in", "on", "at", "to", "for", "of", "with", "by",
     "this", "that", "these", "those", "a", "an", "is", "are", "was", "were", "be",
     "been", "being", "have", "has", "had", "do", "does", "did", "will", "would",
     "could", "should", "may", "might", "must", "can", "shall", "from", "as", "it",
     "he", "she", "they", "we", "you", "me", "him", "her", "us", "them", "my", "your",
     "his", "its", "our", "their", "i", "am", "not", "no", "yes", "if", "when", "where",
     "what", "who", "how", "why", "which", "all", "any", "some", "many", "most", "few"}

\* the own keys of semanticMappings, in insertion order
ConceptKeys == <<"fruit", "food", "color", "animal", "technology", "business">>

semanticMappings ==
    [fruit |-> <<"apple", "apples", "banana", "bananas", "orange", "oranges",
                 "grape", "grapes", "berry", "berries">>,
     food |-> <<"apple", "apples", "banana", "bananas", "bread", "meat",
                "vegetable", "vegetables">>,
     color |-> <<"red", "blue", "green", "yellow", "orange", "purple", "black", "white">>,
     animal |-> <<"dog", "cat", "bird", "fish", "lion", "tiger", "elephant", "horse">>,
     technology |-> <<"computer", "software", "app", "website", "digital", "tech",
                      "internet">>,
     business |-> <<"company", "corporation", "startup", "enterprise", "organization",
                    "firm">>]

\* semanticMappings is a plain object literal: a property read with a key
\* that is no own key falls through to Object.prototype. Of the properties
\* of Object.prototype only these two have a name a token can spell
\* (tokens are lower case); both are truthy and neither is iterable.
ObjectPrototypeKeys == {"constructor", "__proto__"}

(***************************************************************************)
(* Arithmetic                                                              *)
(***************************************************************************)
\* vector dimension: new Array(100), hashWord(word) % 100, getDimensions()
Dim == 100

\* a similarity, a vector component and a keyword score are whole numbers
\* of 1/Scale; a final score is a whole number of 1/ScoreScale
Scale == 1000
ScoreScale == 10000

\* a semantic weight is a whole number of 1/WeightScale
WeightScale == 100

Min(a, b) == IF a < b THEN a ELSE b
Max(a, b) == IF a > b THEN a ELSE b

RECURSIVE SqrtBetween(_, _, _)
SqrtBetween(n, lo, hi) ==
    IF hi - lo <= 1 THEN lo
    ELSE LET mid == (lo + hi) \div 2
         IN  IF mid * mid <= n THEN SqrtBetween(n, mid, hi) ELSE SqrtBetween(n, lo, mid)

\* Math.sqrt, rounded down to a whole number
Sqrt(n) == SqrtBetween(n, 0, 46341)

RECURSIVE SumRange(_, _, _)
SumRange(seq, lo, hi) ==
    IF lo > hi THEN 0
    ELSE IF lo = hi THEN seq[lo]
         ELSE LET mid == (lo + hi) \div 2
              IN  SumRange(seq, lo, mid) + SumRange(seq, mid + 1, hi)

SumSeq(seq) == SumRange(seq, 1, Len(seq))

\* vector.reduce((sum, val) => sum + val * val, 0)
SumOfSquares(v) == SumSeq([i \in 1..Len(v) |-> v[i] * v[i]])

\* vectorA.reduce((sum, a, i) => sum + a * vectorB[i], 0)
DotProduct(a, b) == SumSeq([i \in 1..Len(a) |-> a[i] * b[i]])

(***************************************************************************)
(* SimpleEmbeddingService: pure methods                                    *)
(***************************************************************************)
preprocessText(text) ==
    SelectSeq(Split(ReplaceNonWord(ToLowerCase(text), 1, Len(text)), WhitespaceSet),
              LAMBDA word : Len(word) > 2 /\ word \notin stopWords)

IsConcept(word) == word \in SeqToSet(ConceptKeys)

\* if (this.semanticMappings[word]): an own key or an inherited property
MappingTruthy(word) == IsConcept(word) \/ word \in ObjectPrototypeKeys

\* expandedWords.push(...this.semanticMappings[word]) throws a TypeError
\* when the value read is the inherited, non-iterable one
ExpandThrows(words) == \E i \in 1..Len(words) : words[i] \in ObjectPrototypeKeys

\* the reverse lookup of one word: every concept whose targets include it
ReverseConcepts(word) ==
    SelectSeq(ConceptKeys, LAMBDA concept : word \in SeqToSet(semanticMappings[concept]))

RECURSIVE Flatten(_, _, _)
Flatten(seqs, lo, hi) ==
    IF lo > hi THEN <<>>
    ELSE IF lo = hi THEN seqs[lo]
         ELSE LET mid == (lo + hi) \div 2
              IN  Flatten(seqs, lo, mid) \o Flatten(seqs, mid + 1, hi)

\* what words.forEach pushes onto expandedWords, word by word
ExpansionOf(words) ==
    Flatten([i \in 1..Len(words) |->
                (IF IsConcept(words[i]) THEN semanticMappings[words[i]] ELSE <<>>)
                \o ReverseConcepts(words[i])],
            1, Len(words))

\* an expansion that also expands the terms it has added
expandTransitively(words) ==
    Unique(words \o ExpansionOf(words) \o ExpansionOf(ExpansionOf(words)))

\* defined when ExpandThrows(words) is false
expandSemanticTerms(words) == Unique(words \o ExpansionOf(words))

CountIn(words, word) == Cardinality({i \in 1..Len(words) : words[i] = word})

\* term frequency count / docLength, kept as the fraction num / den
calculateTFIDF(words) ==
    [word \in SeqToSet(words) |-> [num |-> CountIn(words, word), den |-> Len(words)]]

\* the loop of hashWord on the two 16-bit halves of the int32 value:
\* hash = ((hash << 5) - hash) + char; hash = hash & hash
RECURSIVE HashHalves(_, _, _, _)
HashHalves(word, i, hi, lo) ==
    IF i > Len(word) THEN <<hi, lo>>
    ELSE LET low == 31 * lo + CharCode(CharAt(word, i))
         IN  HashHalves(word, i + 1, (31 * hi + low \div 65536) % 65536, low % 65536)

\* the int32 value of hash when the loop of hashWord ends
HashInt32(word) ==
    LET h == HashHalves(word, 1, 0, 0)
    IN  IF h[1] >= 32768 THEN (h[1] - 65536) * 65536 + h[2] ELSE h[1] * 65536 + h[2]

\* an absolute value taken in 32-bit integers, where the absolute value of
\* -2^31 is -2^31 and the remainder takes the sign of the dividend
AbsModInt32(h, m) ==
    IF h >= 0 THEN h % m
    ELSE IF h + 1 = 0 - 2147483647 THEN 0 - ((((0 - (h + 1)) % m) + 1) % m)
    ELSE (0 - h) % m

\* Math.abs(h) % m, without forming 2^31
AbsMod(h, m) == IF h >= 0 THEN h % m ELSE (((0 - (h + 1)) % m) + 1) % m

\* a hash that sends every word to the same component of the vector
VectorIndexZero(word) == 0

\* this.hashWord(word) % 100
VectorIndex(word) == AbsMod(HashInt32(word), Dim)

\* semanticWeight, in 1/WeightScale
SemanticWeight(word) ==
    (WeightScale
        * (IF Len(word) > 6 THEN 12 ELSE 10)
        * (IF EndsWith(word, "ing") \/ EndsWith(word, "tion") THEN 11 ELSE 10)
        * (IF MappingTruthy(word) THEN 15 ELSE 10)) \div 1000

ZeroVector == [k \in 1..Dim |-> 0]

\* vector.map(val => val / magnitude) when magnitude > 0, in 1/Scale
NormalizeVector(v) ==
    LET magnitude == Sqrt(SumOfSquares(v))
    IN  IF magnitude > 0 THEN [k \in 1..Len(v) |-> (v[k] * Scale) \div magnitude] ELSE v

\* in 1/Scale
cosineSimilarity(vectorA, vectorB) ==
    IF Len(vectorA) # Len(vectorB) \/ Len(vectorA) = 0 THEN 0
    ELSE LET dotProduct == DotProduct(vectorA, vectorB)
             magnitudeA == Sqrt(SumOfSquares(vectorA))
             magnitudeB == Sqrt(SumOfSquares(vectorB))
         IN  IF magnitudeA = 0 \/ magnitudeB = 0 THEN 0
             ELSE Max(0, Min(Scale, (dotProduct * Scale) \div (magnitudeA * magnitudeB)))

\* A number[] argument outside the range the service itself produces: the
\* numbers digits[k] * 10^exponent.  In IEEE doubles a product of two numbers
\* of exponent 200 is Infinity and a product of two numbers of exponent -200
\* is 0.
Huge == 200
Tiny == 0 - 200
Plain == 0

\* components are handed to the fixed-point arithmetic in 1/Unit
Unit == 100

NaN == [nan |-> TRUE, value |-> 0]
Number(n) == [nan |-> FALSE, value |-> n]

IsZeroVector(digits) == \A k \in 1..Len(digits) : digits[k] = 0

\* the sum of products that are each Infinity, -Infinity or 0
InfiniteSum(a, b) ==
    LET plus == \E k \in 1..Len(a) : a[k] * b[k] > 0
        minus == \E k \in 1..Len(a) : a[k] * b[k] < 0
    IN  IF plus /\ minus THEN "NaN"
        ELSE IF plus THEN "Infinity"
        ELSE IF minus THEN "-Infinity"
        ELSE "0"

\* cosineSimilarity on these arguments, the result in 1/Scale or NaN
cosineSimilarityOfDoubles(vectorA, vectorB) ==
    LET a == vectorA.digits
        b == vectorB.digits
    IN  IF Len(a) # Len(b) \/ Len(a) = 0 THEN Number(0)
        ELSE IF vectorA.exponent = Plain /\ vectorB.exponent = Plain
             THEN Number(cosineSimilarity([k \in 1..Len(a) |-> a[k] * Unit],
                                          [k \in 1..Len(b) |-> b[k] * Unit]))
        \* a * a underflows to 0 for every component: magnitude === 0
        ELSE IF vectorA.exponent = Tiny \/ vectorB.exponent = Tiny THEN Number(0)
        ELSE IF IsZeroVector(a) \/ IsZeroVector(b) THEN Number(0)
        \* magnitudeA * magnitudeB is Infinity from here on
        ELSE IF vectorA.exponent = Huge /\ vectorB.exponent = Huge
             THEN LET dotProduct == InfiniteSum(a, b)
                  \* Infinity / Infinity and NaN / Infinity are NaN, and
                  \* Math.min and Math.max return NaN for a NaN argument
                  IN  IF dotProduct = "0" THEN Number(0) ELSE NaN
        \* a finite dotProduct over Infinity
        ELSE Number(0)


(***************************************************************************)
(* SimpleDocumentService: pure methods                                     *)
(*                                                                         *)
(* A File is [name, size, text]: text is what file.text() yields for a     *)
(* txt file and what the format's extractor yields for the other types.    *)
(***************************************************************************)
supportedTypes == <<"pdf", "docx", "csv", "txt", "xlsx", "pptx">>

\* the value null
Null == "null"

\* a getFileExtension without the supportedTypes test: the text after the
\* last dot, whatever it is
getFileExtensionAny(filename) ==
    LET parts == Split(filename, {"."})
    IN  ToLowerCase(parts[Len(parts)])

\* filename.split('.').pop()?.toLowerCase(), or null when not supported
getFileExtension(filename) ==
    LET parts == Split(filename, {"."})
        \* split('.') separates at every dot: a name ending in a dot gives ""
        ext == IF filename # "" /\ CharAt(filename, Len(filename)) = "."
               THEN "" ELSE ToLowerCase(parts[Len(parts)])
    IN  IF ext \in SeqToSet(supportedTypes) THEN ext ELSE Null

\* Number to decimal string, for whole numbers
RECURSIVE NatToString(_)
NatToString(n) ==
    IF n < 10 THEN CharAt(Digits, n + 1)
    ELSE NatToString(n \div 10) \o CharAt(Digits, (n % 10) + 1)

\* for bytes < 1024, the sizes of the files of this model:
\* i = 0 and parseFloat((bytes).toFixed(2)) prints the whole number
formatFileSize(bytes) ==
    IF bytes = 0 THEN "0 Bytes" ELSE NatToString(bytes) \o " Bytes"

\* new Date().toLocaleDateString(): the day of the upload
UploadDate == "11/3/2026"

\* the text returned by the catch block of realTextExtraction; the bullet
\* character of the source (no word character, no whitespace, no sentence
\* end) is written as an asterisk
ExtractionErrorText(file, fileType, errorMessage) ==
    "Document: " \o file.name \o "\nFile Type: " \o ToUpperCase(fileType)
    \o "\nSize: " \o formatFileSize(file.size)
    \o "\nUploaded: " \o UploadDate
    \o "\n\nExtraction Error: " \o errorMessage
    \o "\n\nTroubleshooting:\n* Ensure the file isn't corrupted"
    \o "\n* Try converting to a simpler format (.txt)"
    \o "\n* Check if the file opens correctly in its native application"
    \o "\n* For PDFs: ensure it's text-based, not image-based"

MaxExtractionBytes == 52428800

MinPdfBytes == 100

\* the Error message thrown inside the try block, or Null when none is
ExtractionError(file, fileType) ==
    IF file.size = 0 THEN "File is empty or invalid"
    ELSE IF file.size > MaxExtractionBytes THEN "File too large for text extraction"
    ELSE IF fileType = "pdf" /\ file.size < MinPdfBytes
         THEN "PDF file appears to be too small to contain valid content"
    ELSE IF fileType \notin SeqToSet(supportedTypes)
         THEN "Unsupported file type: " \o fileType
    ELSE Null

ExtractionFails(file, fileType) == ExtractionError(file, fileType) # Null

realTextExtraction(file, fileType) ==
    IF ExtractionFails(file, fileType)
    THEN ExtractionErrorText(file, fileType, ExtractionError(file, fileType))
    ELSE file.text

isStopWord(word) ==
    word \in {"the", "and", "or", "but", "in", "on", "at", "to", "for", "of", "with", "by",
              "this", "that", "these", "those", "a", "an", "is", "are", "was", "were", "be",
              "been", "being", "have", "has", "had", "do", "does", "did", "will", "would",
              "could", "should", "may", "might", "must", "can", "shall", "from", "text",
              "document", "file", "content", "contains", "includes"}

\* a canonical array index: such keys of an object come first, in
\* ascending numeric order, when its own keys are listed
IsArrayIndex(word) ==
    /\ word # ""
    /\ \A i \in 1..Len(word) : CharAt(word, i) \in DigitSet
    /\ (Len(word) > 1 => CharAt(word, 1) # "0")
    /\ Len(word) <= 9

DigitsToNat(word) ==
    SumSeq([i \in 1..Len(word) |->
               (IndexIn(Digits, CharAt(word, i)) - 1) * (10 ^ (Len(word) - i))])

\* Object.entries(frequency): the own keys of an object built by assigning
\* the words in order. The key __proto__ never becomes an own key (the
\* assignment goes to the prototype setter, which ignores a string).
OwnKeys(words) ==
    LET keys == Unique(SelectSeq(words, LAMBDA w : w # "__proto__"))
        indexKeys == SelectSeq(keys, IsArrayIndex)
    IN  SortDescending(indexKeys, [i \in 1..Len(indexKeys) |-> 0 - DigitsToNat(indexKeys[i])])
        \o SelectSeq(keys, LAMBDA w : ~IsArrayIndex(w))

\* words.filter(length > 3).filter(not a stop word)
KeywordCandidates(text) ==
    SelectSeq(Split(ReplaceNonWord(ToLowerCase(text), 1, Len(text)), WhitespaceSet),
              LAMBDA word : Len(word) > 3 /\ ~isStopWord(word))

\* frequency = {} is a plain object: frequency[word] || 0 reads an inherited
\* function for the word "constructor", and the "count" becomes a string;
\* b - a is then NaN
CountIsNaN(word) == word \in ObjectPrototypeKeys

\* the top 8 most frequent words, when every count is a number
extractKeywords(text) ==
    LET words == KeywordCandidates(text)
        keys == OwnKeys(words)
        sorted == SortDescending(keys, [i \in 1..Len(keys) |-> CountIn(words, keys[i])])
    IN  SubSeq(sorted, 1, Min(8, Len(sorted)))

\* what extractKeywords can return. With a NaN count the comparator is
\* inconsistent and the sort order is implementation-defined: any order of
\* the entries is then possible.
KeywordOutcomes(text) ==
    LET keys == OwnKeys(KeywordCandidates(text))
        n == Len(keys)
    IN  IF \A i \in 1..n : ~CountIsNaN(keys[i]) THEN {extractKeywords(text)}
        ELSE {[k \in 1..Min(8, n) |-> keys[order[k]]] :
                 order \in {f \in [1..n -> 1..n] : \A i, j \in 1..n : f[i] = f[j] => i = j}}

(***************************************************************************)
(* State                                                                   *)
(*                                                                         *)
(* documents       SimpleDocumentService.documents, a Map: the documents   *)
(*                 in insertion order                                      *)
(* embDocuments    SimpleEmbeddingService.documents, a Map keyed by id     *)
(* globalWordFreq  SimpleEmbeddingService.globalWordFreq: word -> number.  *)
(*                 A number is ln(logNum / logDen) + plus, which covers    *)
(*                 the counts (ln 1 + k) and what calculateIDF writes      *)
(* totalDocuments  SimpleEmbeddingService.totalDocuments                   *)
(* vocabulary      SimpleEmbeddingService.vocabulary, as the set of its    *)
(*                 elements                                                *)
(* nextId          the ids generateId has handed out so far: an id is      *)
(*                 random and taken to be fresh                            *)
(* calls           the number of calls made so far                         *)
(* last, results   the last completed call and, for a search, the list it  *)
(*                 returned                                                *)
(* failedIds       history: the ids of the documents whose text            *)
(*                 extraction failed                                       *)
(* tasks           the calls that were started without awaiting the one    *)
(*                 before: each call's place between its awaits and what   *)
(*                 it holds in its local variables                         *)
(* running         the call whose synchronous code is executing, when that *)
(*                 code is followed step by step: a set of at most one     *)
(*                 index of tasks                                          *)
(* app             the state of the App component that the searches touch, *)
(*                 and the requests it has in flight                       *)
(* call            a direct call of a method that reads no state: its      *)
(*                 arguments and, once it has returned, its result         *)
(***************************************************************************)
VARIABLES documents, embDocuments, globalWordFreq, totalDocuments, vocabulary,
          nextId, calls, last, results, failedIds, tasks, running, app, call

vars == <<documents, embDocuments, globalWordFreq, totalDocuments, vocabulary,
          nextId, calls, last, results, failedIds, tasks, running, app, call>>

\* the calls in flight, for a caller that does not await each call
asyncVars == <<tasks, running>>

storeVars == <<documents, embDocuments, globalWordFreq, totalDocuments, vocabulary>>

EmptyMap == [x \in {} |-> 0]

\* no documentId argument
NoId == 0

\* the App component is not mounted; no method has been called directly
NoApp == [mounted |-> FALSE]
NoDirectCall == [method |-> "none"]

(***************************************************************************)
(* SimpleEmbeddingService: methods that read or write the state            *)
(***************************************************************************)
\* this.globalWordFreq[word] = (this.globalWordFreq[word] || 0) + 1
\* for every key of tfidf
CountWords(freq, words) ==
    [w \in (DOMAIN freq) \cup words |->
        IF w \in words
        THEN IF w \in DOMAIN freq THEN [freq[w] EXCEPT !.plus = @ + 1]
             ELSE [logNum |-> 1, logDen |-> 1, plus |-> 1]
        ELSE freq[w]]

\* a frequency weighted by the service's running count of the word, as a
\* vector that read this.globalWordFreq would be
FrequencyWeighted(tfidf, word) ==
    IF word \in DOMAIN tfidf
    THEN tfidf[word].num * (IF word \in DOMAIN globalWordFreq
                            THEN 1 + globalWordFreq[word].plus ELSE 1)
    ELSE 0

\* a frequency weighted by the number of stored term maps that hold the
\* word, as a vector that read this.documents would be
FrequencyByDocuments(tfidf, word) ==
    IF word \in DOMAIN tfidf
    THEN tfidf[word].num
         * (1 + Cardinality({id \in DOMAIN embDocuments :
                                word \in DOMAIN embDocuments[id].tfidf}))
    ELSE 0

\* frequency = tfidf[word] || 0: the numerator of the fraction
Frequency(tfidf, word) == IF word \in DOMAIN tfidf THEN tfidf[word].num ELSE 0

\* uniqueWords.forEach: vector[vectorIndex] += frequency * semanticWeight,
\* from word i on. Every frequency of one text has the denominator
\* docLength, so the entries are kept as whole numbers of
\* 1/(WeightScale * docLength).
RECURSIVE AddWords(_, _, _, _)
AddWords(vector, uniqueWords, tfidf, i) ==
    IF i > Len(uniqueWords) THEN vector
    ELSE AddWords([vector EXCEPT ![VectorIndex(uniqueWords[i]) + 1] =
                      @ + Frequency(tfidf, uniqueWords[i]) * SemanticWeight(uniqueWords[i])],
                  uniqueWords, tfidf, i + 1)

RawVector(uniqueWords, tfidf) == AddWords(ZeroVector, uniqueWords, tfidf, 1)

\* getEmbedding(text, documentId): whether it threw, the vector returned
\* and the state of the service when it returns
getEmbedding(text, documentId) ==
    LET words == preprocessText(text)
        same == [threw |-> FALSE, vector |-> ZeroVector,
                 globalWordFreq |-> globalWordFreq, embDocuments |-> embDocuments,
                 totalDocuments |-> totalDocuments]
    IN  IF ExpandThrows(words) THEN [same EXCEPT !.threw = TRUE, !.vector = <<>>]
        ELSE LET expandedWords == expandSemanticTerms(words)
                 tfidf == calculateTFIDF(expandedWords)
                 stored == IF documentId # NoId
                           THEN [id \in (DOMAIN embDocuments) \cup {documentId} |->
                                    IF id = documentId
                                    THEN [tfidf |-> tfidf, wordCount |-> Len(expandedWords)]
                                    ELSE embDocuments[id]]
                           ELSE embDocuments
             IN  IF Len(expandedWords) = 0 THEN same
                 ELSE [threw |-> FALSE,
                       vector |-> NormalizeVector(RawVector(Unique(expandedWords), tfidf)),
                       globalWordFreq |-> CountWords(globalWordFreq, DOMAIN tfidf),
                       embDocuments |-> stored,
                       totalDocuments |-> IF documentId # NoId
                                          THEN Cardinality(DOMAIN stored)
                                          ELSE totalDocuments]

RECURSIVE Gcd(_, _)
Gcd(a, b) == IF b = 0 THEN a ELSE Gcd(b, a % b)

\* calculateIDF on the given tables: the new globalWordFreq
calculateIDF(freq, docs, total) ==
    [word \in DOMAIN freq |->
        LET docCount == Cardinality({id \in DOMAIN docs :
                                        /\ word \in DOMAIN docs[id].tfidf
                                        /\ docs[id].tfidf[word].num > 0})
            g == Gcd(total, docCount)
        IN  IF docCount > 0
            THEN [logNum |-> total \div g, logDen |-> docCount \div g, plus |-> 0]
            ELSE freq[word]]

\* updateVocabulary on the given tables: the new globalWordFreq and vocabulary
updateVocabulary(freq, docs, total, vocab) ==
    IF total > 1
    THEN [globalWordFreq |-> calculateIDF(freq, docs, total), vocabulary |-> DOMAIN freq]
    ELSE [globalWordFreq |-> freq, vocabulary |-> vocab]

(***************************************************************************)
(* SimpleDocumentService.searchDocuments: the body of the loop             *)
(***************************************************************************)
\* const minSemanticScore = 0.18, in 1/Scale
MinSemanticScore == 180

\* the thresholds 0.1 and 0.15, in 1/ScoreScale
BaseThreshold == 1000
SemanticThreshold == 1500

\* .slice(0, 3) of the matches and .slice(0, 10) of the results
MaxSections == 3
MaxResults == 10

Sentences(text) ==
    SelectSeq(Split(text, {".", "!", "?"}), LAMBDA sentence : Len(Trim(sentence)) > 0)

\* a keyword score that counts only the sentences that are recorded
KeywordScoreOfRecorded(filenameMatches, keywordMatches, contentMatches) ==
    (IF filenameMatches THEN 300 ELSE 0) + keywordMatches * 150
        + Min(contentMatches, MaxSections) * 200

\* keywordScore += 0.3; += keywordMatches.length * 0.15; += 0.2 per sentence,
\* in 1/Scale
KeywordScore(filenameMatches, keywordMatches, contentMatches) ==
    (IF filenameMatches THEN 300 ELSE 0) + keywordMatches * 150 + contentMatches * 200

\* a hybrid score that weighs both scores alike
HybridScoreEvenly(effectiveSemanticScore, keywordScore) ==
    effectiveSemanticScore * 5 + keywordScore * 5

\* (effectiveSemanticScore * 0.7) + (keywordScore * 0.3), in 1/ScoreScale
HybridScore(effectiveSemanticScore, keywordScore) ==
    effectiveSemanticScore * 7 + keywordScore * 3

\* a threshold of 0.4 for every type
ThresholdRaised(searchType) == 4 * BaseThreshold

\* let threshold = 0.1; if (searchType === 'semantic') threshold = 0.15
Threshold(searchType) ==
    IF searchType = "semantic" THEN SemanticThreshold ELSE BaseThreshold

\* every match recorded
AllSections(matches) == matches

\* matches.slice(0, 3)
TopSections(matches) == SubSeq(matches, 1, Min(MaxSections, Len(matches)))

\* one pass of the loop body for a document: the scores, the type and
\* whether the document is pushed onto results. queryEmbedding is
\* [defined, vector]; a document's embedding likewise.
ScoreDocument(document, query, queryEmbedding) ==
    LET queryLower == ToLowerCase(query)
        semanticScore ==
            IF queryEmbedding.defined /\ document.embedding.defined
            THEN cosineSimilarity(queryEmbedding.vector, document.embedding.vector)
            ELSE 0
        keywordMatches ==
            SelectSeq(document.keywords,
                      LAMBDA keyword : \/ Includes(ToLowerCase(keyword), queryLower)
                                       \/ Includes(queryLower, ToLowerCase(keyword)))
        matching ==
            SelectSeq(Sentences(document.extractedText),
                      LAMBDA sentence : Includes(ToLowerCase(sentence), queryLower))
        matches == [i \in 1..Len(matching) |->
                       [text |-> Trim(matching[i]), context |-> Trim(matching[i])]]
        keywordScore ==
            KeywordScore(Includes(ToLowerCase(document.filename), queryLower),
                         Len(keywordMatches), Len(matching))
        effectiveSemanticScore ==
            IF semanticScore > MinSemanticScore THEN semanticScore ELSE 0
        hybrid == effectiveSemanticScore > 0 /\ keywordScore > 0
        semantic == ~hybrid /\ effectiveSemanticScore > 0
        keyword == ~hybrid /\ ~semantic /\ keywordScore > 0
        finalScore ==
            IF hybrid THEN HybridScore(effectiveSemanticScore, keywordScore)
            ELSE IF semantic THEN effectiveSemanticScore * (ScoreScale \div Scale)
            ELSE IF keyword THEN Min(keywordScore, Scale) * (ScoreScale \div Scale)
            ELSE 0
        searchType == IF hybrid THEN "hybrid" ELSE IF semantic THEN "semantic" ELSE "keyword"
        threshold == Threshold(searchType)
    IN  [included |-> finalScore > threshold,
         semanticScore |-> semanticScore,
         keywordScore |-> keywordScore,
         result |-> [document |-> document.id,
                     score |-> finalScore,
                     searchType |-> searchType,
                     matchedSections |-> TopSections(matches)]]

\* the results left in the order the loop pushed them
SortByInsertion(list) == list

\* results.sort((a, b) => b.score - a.score)
SortByScore(list) == SortDescending(list, [i \in 1..Len(list) |-> list[i].score])

\* .slice(0, 10)
TopResults(list) == SubSeq(list, 1, Min(MaxResults, Len(list)))

\* the loop over this.documents.values(), the sort and the slice
RankDocuments(docs, query, queryEmbedding) ==
    LET scored == [i \in 1..Len(docs) |-> ScoreDocument(docs[i], query, queryEmbedding)]
        pushed == SelectSeq(scored, LAMBDA s : s.included)
    IN  TopResults(SortByScore([i \in 1..Len(pushed) |-> pushed[i].result]))

(***************************************************************************)
(* The calls of SimpleDocumentService, each awaited before the next        *)
(***************************************************************************)
NoCall == [op |-> "none", query |-> "", file |-> "", id |-> NoId, ok |-> TRUE,
           repeat |-> FALSE]

Undefined == [defined |-> FALSE, vector |-> <<>>]

\* a document that gets the zero vector when getEmbedding threw
NewDocumentWithZeroVector(id, file, fileExtension, extractedText, keywords, embedding) ==
    [id |-> id,
     filename |-> file.name,
     fileType |-> fileExtension,
     fileSize |-> file.size,
     extractedText |-> extractedText,
     keywords |-> keywords,
     embedding |-> [defined |-> TRUE,
                    vector |-> IF embedding.threw THEN ZeroVector ELSE embedding.vector]]

\* the SimpleDocument built by uploadDocument (uploadedAt and metadata,
\* which no operation reads, are left out)
NewDocument(id, file, fileExtension, extractedText, keywords, embedding) ==
    [id |-> id,
     filename |-> file.name,
     fileType |-> fileExtension,
     fileSize |-> file.size,
     extractedText |-> extractedText,
     keywords |-> keywords,
     embedding |-> IF embedding.threw THEN Undefined
                   ELSE [defined |-> TRUE, vector |-> embedding.vector]]

uploadDocument(file) ==
    LET id == nextId + 1
        fileExtension == getFileExtension(file.name)
    IN  /\ nextId' = id
        /\ calls' = calls + 1
        /\ UNCHANGED <<asyncVars, call>>
        /\ results' = <<>>
        /\ IF fileExtension = Null
           THEN /\ last' = [NoCall EXCEPT !.op = "upload", !.file = file.name, !.ok = FALSE]
                /\ UNCHANGED <<storeVars, failedIds>>
           ELSE LET extractedText == realTextExtraction(file, fileExtension)
                    embedding == getEmbedding(extractedText, id)
                    updated == updateVocabulary(embedding.globalWordFreq,
                                                embedding.embDocuments,
                                                embedding.totalDocuments, vocabulary)
                IN  /\ \E keywords \in KeywordOutcomes(extractedText) :
                           documents' = Append(documents,
                               NewDocument(id, file, fileExtension, extractedText,
                                           keywords, embedding))
                    /\ embDocuments' = embedding.embDocuments
                    /\ totalDocuments' = embedding.totalDocuments
                    /\ globalWordFreq' = updated.globalWordFreq
                    /\ vocabulary' = updated.vocabulary
                    /\ failedIds' = IF ExtractionFails(file, fileExtension)
                                    THEN failedIds \cup {id} ELSE failedIds
                    /\ last' = [NoCall EXCEPT !.op = "upload", !.file = file.name,
                                              !.id = id, !.ok = TRUE]

searchDocuments(query) ==
    /\ calls' = calls + 1
    /\ UNCHANGED <<asyncVars, call>>
    /\ last' = [NoCall EXCEPT !.op = "search", !.query = query,
                              !.repeat = (last.op = "search" /\ last.query = query)]
    /\ IF Trim(query) = ""
       THEN /\ results' = <<>>
            /\ UNCHANGED <<storeVars, nextId, failedIds>>
       ELSE LET embedding == getEmbedding(query, NoId)
                queryEmbedding == IF embedding.threw THEN Undefined
                                  ELSE [defined |-> TRUE, vector |-> embedding.vector]
            IN  /\ globalWordFreq' = embedding.globalWordFreq
                /\ results' = RankDocuments(documents, query, queryEmbedding)
                /\ UNCHANGED <<documents, embDocuments, totalDocuments, vocabulary,
                               nextId, failedIds>>

\* a delete that removes every entry inserted up to the key
MapDeleteUpTo(docs, id) == SelectSeq(docs, LAMBDA d : d.id > id)

\* Map.prototype.delete: the entries without the key, in insertion order
MapDelete(docs, id) == SelectSeq(docs, LAMBDA d : d.id # id)

\* Map.prototype.has
MapHas(docs, id) == \E i \in 1..Len(docs) : docs[i].id = id

\* this.documents.get(id) || null
getDocument(docs, id) ==
    IF MapHas(docs, id) THEN docs[CHOOSE i \in 1..Len(docs) : docs[i].id = id] ELSE Null

\* this.documents.delete(id)
deleteDocument(id) ==
    /\ calls' = calls + 1
    /\ UNCHANGED <<asyncVars, call>>
    /\ documents' = MapDelete(documents, id)
    /\ last' = [NoCall EXCEPT !.op = "delete", !.id = id, !.ok = MapHas(documents, id)]
    /\ results' = <<>>
    /\ UNCHANGED <<embDocuments, globalWordFreq, totalDocuments, vocabulary, nextId,
                   failedIds>>

(***************************************************************************)
(* Inputs                                                                  *)
(***************************************************************************)
FileA == [name |-> "a.txt", size |-> 22, text |-> "apples bananas oranges"]
FileB == [name |-> "b.txt", size |-> 25, text |-> "quarterly revenue numbers"]
FileApples == [name |-> "apples.txt", size |-> 23, text |-> "apples. apples. apples."]
\* three bytes, a byte order mark: file.text() is the empty string
FileBlank == [name |-> "notes.TXT", size |-> 3, text |-> ""]
FileEmpty == [name |-> "empty.txt", size |-> 0, text |-> ""]
FileExe == [name |-> "x.exe", size |-> 10, text |-> "binary"]
FileCtor == [name |-> "ctor.txt", size |-> 11, text |-> "constructor"]

Files == {FileA, FileB, FileApples, FileBlank, FileEmpty, FileExe, FileCtor}

Queries == {"", " ", "fruit", "apples", "notes", "extraction"}

\* the number of calls of a run
MaxCalls == 3

\* both services as constructed
Constructed ==
    /\ documents = <<>>
    /\ embDocuments = EmptyMap
    /\ globalWordFreq = EmptyMap
    /\ totalDocuments = 0
    /\ vocabulary = {}
    /\ nextId = 0
    /\ calls = 0
    /\ last = NoCall
    /\ results = <<>>
    /\ failedIds = {}
    /\ tasks = <<>>
    /\ running = {}

Init ==
    /\ Constructed
    /\ app = NoApp
    /\ call = NoDirectCall

\* a caller that awaits each call before it makes the next
Upload ==
    /\ calls < MaxCalls
    /\ \E file \in Files : uploadDocument(file)
    /\ UNCHANGED app

Search ==
    /\ calls < MaxCalls
    /\ \E query \in Queries : searchDocuments(query)
    /\ UNCHANGED app

Delete ==
    /\ calls < MaxCalls
    /\ \E id \in 1..nextId : deleteDocument(id)
    /\ UNCHANGED app

Next == Upload \/ Search \/ Delete

Spec == Init /\ [][Next]_vars
(***************************************************************************)
(* A caller that uploads a batch of files and then queries it once, with   *)
(* more documents than searchDocuments returns                             *)
(***************************************************************************)
RankFiles == {FileA, FileApples}

RankQueries == {"apples"}

\* the number of calls of a run: eleven uploads and a search
MaxRankCalls == 12

UploadBatch ==
    /\ calls < MaxRankCalls
    /\ last.op # "search"
    /\ \E file \in RankFiles : uploadDocument(file)
    /\ UNCHANGED app

SearchBatch ==
    /\ calls < MaxRankCalls
    /\ last.op # "search"
    /\ \E query \in RankQueries : searchDocuments(query)
    /\ UNCHANGED app

NextRank == UploadBatch \/ SearchBatch

SpecRank == Init /\ [][NextRank]_vars

(***************************************************************************)
(* A caller with several calls outstanding. An async method runs on the    *)
(* one JavaScript thread until it reaches an await; it resumes when the    *)
(* thread is free. uploadDocument awaits realTextExtraction and            *)
(* getEmbedding, searchDocuments awaits getEmbedding, deleteDocument       *)
(* awaits nothing. getEmbedding itself contains no await, so its body has  *)
(* run when the caller is suspended on it. The loop of searchDocuments is  *)
(* followed one document at a time: running is the call that holds the     *)
(* thread meanwhile.                                                       *)
(***************************************************************************)
NoFile == [name |-> "", size |-> 0, text |-> ""]

\* the local variables of a call: pc is where it stands, "done" when it
\* has returned; snapshot and scanned are history (the store when the loop
\* began, and the documents the loop has visited)
NewTask == [op |-> "none", pc |-> "done", file |-> NoFile, query |-> "", id |-> NoId,
            fileExtension |-> Null, embedding |-> Undefined, threw |-> FALSE,
            index |-> 0, pushed |-> <<>>, snapshot |-> <<>>, scanned |-> <<>>]

AsyncFiles == {FileA, FileCtor, FileExe}

AsyncQueries == {"apples"}

\* the number of calls of a run
MaxTasks == 3

\* uploadDocument up to await this.realTextExtraction(file, fileExtension)
UploadBegin(file) ==
    LET id == nextId + 1
        fileExtension == getFileExtension(file.name)
        task == [NewTask EXCEPT !.op = "upload", !.file = file, !.id = id,
                                !.fileExtension = fileExtension]
    IN  /\ running = {}
        /\ calls < MaxTasks
        /\ calls' = calls + 1
        /\ nextId' = id
        /\ IF fileExtension = Null
           THEN /\ tasks' = Append(tasks, task)
                /\ last' = [NoCall EXCEPT !.op = "upload", !.file = file.name, !.ok = FALSE]
                /\ results' = <<>>
           ELSE /\ tasks' = Append(tasks, [task EXCEPT !.pc = "extracting"])
                /\ UNCHANGED <<last, results>>
        /\ UNCHANGED <<storeVars, failedIds, running>>

\* from the extracted text to await simpleEmbeddingService.getEmbedding
UploadEmbed(t) ==
    LET task == tasks[t]
        extractedText == realTextExtraction(task.file, task.fileExtension)
        embedding == getEmbedding(extractedText, task.id)
    IN  /\ running = {}
        /\ task.pc = "extracting"
        /\ embDocuments' = embedding.embDocuments
        /\ totalDocuments' = embedding.totalDocuments
        /\ globalWordFreq' = embedding.globalWordFreq
        /\ tasks' = [tasks EXCEPT ![t].pc = "embedding",
                                  ![t].threw = embedding.threw,
                                  ![t].embedding =
                                      IF embedding.threw THEN Undefined
                                      ELSE [defined |-> TRUE, vector |-> embedding.vector]]
        /\ UNCHANGED <<documents, vocabulary, nextId, calls, last, results, failedIds,
                       running>>

\* from the embedding to the return: the document is built, stored, and
\* updateVocabulary runs on the statistics as they are by then
UploadStore(t) ==
    LET task == tasks[t]
        extractedText == realTextExtraction(task.file, task.fileExtension)
        updated == updateVocabulary(globalWordFreq, embDocuments, totalDocuments,
                                    vocabulary)
    IN  /\ running = {}
        /\ task.pc = "embedding"
        /\ task.op = "upload"
        /\ \E keywords \in KeywordOutcomes(extractedText) :
               documents' = Append(documents,
                   NewDocument(task.id, task.file, task.fileExtension, extractedText,
                               keywords, [threw |-> task.threw,
                                          vector |-> task.embedding.vector]))
        /\ globalWordFreq' = updated.globalWordFreq
        /\ vocabulary' = updated.vocabulary
        /\ failedIds' = IF ExtractionFails(task.file, task.fileExtension)
                        THEN failedIds \cup {task.id} ELSE failedIds
        /\ tasks' = [tasks EXCEPT ![t].pc = "done"]
        /\ last' = [NoCall EXCEPT !.op = "upload", !.file = task.file.name,
                                  !.id = task.id, !.ok = TRUE]
        /\ results' = <<>>
        /\ UNCHANGED <<embDocuments, totalDocuments, nextId, calls, running>>

\* searchDocuments up to await simpleEmbeddingService.getEmbedding(query)
SearchBegin(query) ==
    LET task == [NewTask EXCEPT !.op = "search", !.query = query]
        embedding == getEmbedding(query, NoId)
    IN  /\ running = {}
        /\ calls < MaxTasks
        /\ calls' = calls + 1
        /\ IF Trim(query) = ""
           THEN /\ tasks' = Append(tasks, task)
                /\ last' = [NoCall EXCEPT !.op = "search", !.query = query]
                /\ results' = <<>>
                /\ UNCHANGED globalWordFreq
           ELSE /\ tasks' = Append(tasks,
                        [task EXCEPT !.pc = "embedding",
                                     !.threw = embedding.threw,
                                     !.embedding =
                                         IF embedding.threw THEN Undefined
                                         ELSE [defined |-> TRUE,
                                               vector |-> embedding.vector]])
                /\ globalWordFreq' = embedding.globalWordFreq
                /\ UNCHANGED <<last, results>>
        /\ UNCHANGED <<documents, embDocuments, totalDocuments, vocabulary, nextId,
                       failedIds, running>>

\* the search resumes: const results = [], queryLower, and the iterator of
\* this.documents.values() is taken
ScanBegin(t) ==
    /\ running = {}
    /\ tasks[t].op = "search"
    /\ tasks[t].pc = "embedding"
    /\ running' = {t}
    /\ tasks' = [tasks EXCEPT ![t].pc = "scanning", ![t].index = 0,
                              ![t].pushed = <<>>, ![t].snapshot = documents,
                              ![t].scanned = <<>>]
    /\ UNCHANGED <<storeVars, nextId, calls, last, results, failedIds>>

\* one pass of the loop body: the iterator yields the next document of the
\* Map as it is now
ScanStep(t) ==
    LET task == tasks[t]
        document == documents[task.index + 1]
        scored == ScoreDocument(document, task.query, task.embedding)
    IN  /\ running = {t}
        /\ task.pc = "scanning"
        /\ task.index < Len(documents)
        /\ tasks' = [tasks EXCEPT ![t].index = task.index + 1,
                                  ![t].scanned = Append(task.scanned, document),
                                  ![t].pushed = IF scored.included
                                                THEN Append(task.pushed, scored.result)
                                                ELSE task.pushed]
        /\ UNCHANGED <<storeVars, nextId, calls, last, results, failedIds, running>>

\* the iterator is exhausted: sort, slice and return
ScanEnd(t) ==
    LET task == tasks[t]
    IN  /\ running = {t}
        /\ task.pc = "scanning"
        /\ task.index >= Len(documents)
        /\ running' = {}
        /\ tasks' = [tasks EXCEPT ![t].pc = "done"]
        /\ results' = TopResults(SortByScore(task.pushed))
        /\ last' = [NoCall EXCEPT !.op = "search", !.query = task.query]
        /\ UNCHANGED <<storeVars, nextId, calls, failedIds>>

\* deleteDocument has no await: the whole call is one step
DeleteCall(id) ==
    /\ running = {}
    /\ calls < MaxTasks
    /\ calls' = calls + 1
    /\ documents' = MapDelete(documents, id)
    /\ tasks' = Append(tasks, [NewTask EXCEPT !.op = "delete", !.id = id])
    /\ last' = [NoCall EXCEPT !.op = "delete", !.id = id, !.ok = MapHas(documents, id)]
    /\ results' = <<>>
    /\ UNCHANGED <<embDocuments, globalWordFreq, totalDocuments, vocabulary, nextId,
                   failedIds, running>>

StartUpload ==
    /\ \E file \in AsyncFiles : UploadBegin(file)
    /\ UNCHANGED <<app, call>>

ResumeUpload ==
    /\ \E t \in DOMAIN tasks : UploadEmbed(t)
    /\ UNCHANGED <<app, call>>

FinishUpload ==
    /\ \E t \in DOMAIN tasks : UploadStore(t)
    /\ UNCHANGED <<app, call>>

StartSearch ==
    /\ \E query \in AsyncQueries : SearchBegin(query)
    /\ UNCHANGED <<app, call>>

ResumeSearch ==
    /\ \E t \in DOMAIN tasks : ScanBegin(t)
    /\ UNCHANGED <<app, call>>

Scan ==
    /\ \E t \in DOMAIN tasks : ScanStep(t)
    /\ UNCHANGED <<app, call>>

FinishSearch ==
    /\ \E t \in DOMAIN tasks : ScanEnd(t)
    /\ UNCHANGED <<app, call>>

StartDelete ==
    /\ \E id \in 1..nextId : DeleteCall(id)
    /\ UNCHANGED <<app, call>>

NextAsync ==
    \/ StartUpload \/ ResumeUpload \/ FinishUpload
    \/ StartSearch \/ ResumeSearch \/ Scan \/ FinishSearch
    \/ StartDelete

SpecAsync == Init /\ [][NextAsync]_vars

(***************************************************************************)
(* A caller that uploads and queries the example documents of the          *)
(* project's test notes                                                    *)
(***************************************************************************)
\* a PDF whose extractor yields the bare text, and the same PDF with the
\* heading extractWithPDFJS puts before the text of the pages
FileQuarterly == [name |-> "Quarterly_Report.pdf", size |-> 120, text |-> "revenue is up"]
FileQuarterlyPdf ==
    [name |-> "Quarterly_Report.pdf", size |-> 120,
     text |-> "PDF Document: Quarterly_Report.pdf\nPages: 1\nExtracted using PDF.js\n\nrevenue is up"]

ExampleFiles == {FileQuarterly, FileQuarterlyPdf, FileA, FileB}

ExampleQueries == {"Quarterly", "revenue"}

UploadExample ==
    /\ calls < MaxCalls
    /\ \E file \in ExampleFiles : uploadDocument(file)
    /\ UNCHANGED app

SearchExample ==
    /\ calls < MaxCalls
    /\ \E query \in ExampleQueries : searchDocuments(query)
    /\ UNCHANGED app

NextExamples == UploadExample \/ SearchExample \/ Delete

SpecExamples == Init /\ [][NextExamples]_vars

\* documents and queries for the scoring rules: a text with five sentences
\* that contain "apples" and one that does not, and a query that is part of
\* a keyword but shares no vector component with the documents
FileFive == [name |-> "five.txt", size |-> 65,
             text |-> "red apples. pears. green apples. apples pie. more apples. apples."]
ScoringFiles == {FileA, FileB, FileApples, FileFive}
ScoringQueries == {"apples", "fruit", "pple", "Numbers", "zebra"}

UploadScoring ==
    /\ calls < MaxCalls
    /\ \E file \in ScoringFiles : uploadDocument(file)
    /\ UNCHANGED app

SearchScoring ==
    /\ calls < MaxCalls
    /\ \E query \in ScoringQueries : searchDocuments(query)
    /\ UNCHANGED app

NextScoring == UploadScoring \/ SearchScoring \/ Delete

SpecScoring == Init /\ [][NextScoring]_vars

\* documents for the keywords: a text with the word "constructor" between
\* words of different counts, and a text of more than eight distinct words
\* with stop words and short words among them
FileKeys == [name |-> "keys.txt", size |-> 30, text |-> "banana constructor apple apple"]
FileNine == [name |-> "nine.txt", size |-> 96,
             text |-> "The Budget plan: budget, plan, budget; costs staff taxes rent "
                      \o "sales profit margin with from 2026"]
KeywordFiles == {FileA, FileKeys, FileNine}

UploadKeywords ==
    /\ calls < MaxCalls
    /\ \E file \in KeywordFiles : uploadDocument(file)
    /\ UNCHANGED app

SpecKeywords == Init /\ [][UploadKeywords]_vars

\* documents and queries for which getEmbedding throws, next to a document
\* with an embedding whose filename contains such a query
FileCtorName == [name |-> "constructor.txt", size |-> 14, text |-> "apples bananas"]
FallbackFiles == {FileA, FileCtor, FileCtorName}
FallbackQueries == {"constructor", "the Constructor", "apples"}

UploadFallback ==
    /\ calls < MaxCalls
    /\ \E file \in FallbackFiles : uploadDocument(file)
    /\ UNCHANGED app

SearchFallback ==
    /\ calls < MaxCalls
    /\ \E query \in FallbackQueries : searchDocuments(query)
    /\ UNCHANGED app

NextFallback == UploadFallback \/ SearchFallback \/ Delete

SpecFallback == Init /\ [][NextFallback]_vars

\* a run of uploads only
SpecUploads == Init /\ [][Upload]_vars

(***************************************************************************)
(* Direct calls of the methods that read no state.  call holds the method, *)
(* its arguments and, after the call, what it returned.                    *)
(***************************************************************************)
serviceVars == <<documents, embDocuments, globalWordFreq, totalDocuments, vocabulary,
                 nextId, calls, last, results, failedIds, tasks, running>>

\* the longest vector and the digits of a component
MaxVectorLen == 2
Components == {0 - 1, 0, 1, 2}

RECURSIVE SeqsUpTo(_, _)
SeqsUpTo(S, n) ==
    IF n = 0 THEN {<<>>}
    ELSE LET shorter == SeqsUpTo(S, n - 1)
         IN  shorter \cup {Append(q, x) : q \in {r \in shorter : Len(r) = n - 1}, x \in S}

DoubleVectors ==
    {[digits |-> d, exponent |-> e] : d \in SeqsUpTo(Components, MaxVectorLen),
                                      e \in {Tiny, Plain, Huge}}

InitCosine ==
    /\ Constructed
    /\ app = NoApp
    /\ \E a \in DoubleVectors, b \in DoubleVectors :
           call = [method |-> "cosineSimilarity", vectorA |-> a, vectorB |-> b,
                   returned |-> FALSE]

CallCosineSimilarity ==
    /\ call.method = "cosineSimilarity"
    /\ ~call.returned
    /\ call' = [call EXCEPT !.returned = TRUE] @@
                [result |-> cosineSimilarityOfDoubles(call.vectorA, call.vectorB)]
    /\ UNCHANGED <<serviceVars, app>>

SpecCosine == InitCosine /\ [][CallCosineSimilarity]_vars

\* the words hashWord is called on: every word of up to MaxHashLen of these
\* characters, longer words whose hash leaves 31 bits, and a word whose hash
\* is -2^31
HashCharacters == {"a", "z", "_", "9"}
MaxHashLen == 3

RECURSIVE Concat(_)
Concat(chars) == IF Len(chars) = 0 THEN "" ELSE chars[1] \o Concat(Tail(chars))

HashWords ==
    {Concat(chars) : chars \in SeqsUpTo(HashCharacters, MaxHashLen)}
        \cup {"quarterly", "organization", "constructor", "vegetables", "alxexlnb"}

InitHash ==
    /\ Constructed
    /\ app = NoApp
    /\ \E word \in HashWords :
           call = [method |-> "hashWord", word |-> word, returned |-> FALSE]

\* const vectorIndex = this.hashWord(word) % 100
CallHashWord ==
    /\ call.method = "hashWord"
    /\ ~call.returned
    /\ call' = [call EXCEPT !.returned = TRUE] @@
                [hash |-> HashInt32(call.word), vectorIndex |-> VectorIndex(call.word)]
    /\ UNCHANGED <<serviceVars, app>>

SpecHash == InitHash /\ [][CallHashWord]_vars

\* the tokens of an argument and how many of them it has at most
VectorizeTokens == {"fruit", "apple", "banana", "report", "constructor", "the"}
MaxWords == 3

WordLists == SeqsUpTo(VectorizeTokens, MaxWords)

\* a text whose tokens are the given words
RECURSIVE JoinWords(_)
JoinWords(words) ==
    IF Len(words) = 0 THEN ""
    ELSE IF Len(words) = 1 THEN words[1]
    ELSE words[1] \o " " \o JoinWords(Tail(words))

InitVectorize ==
    /\ Constructed
    /\ app = NoApp
    /\ \E words \in WordLists :
           \/ call = [method |-> "expandSemanticTerms", words |-> words,
                      returned |-> FALSE]
           \/ call = [method |-> "getEmbedding", text |-> JoinWords(words),
                      returned |-> FALSE]

CallExpandSemanticTerms ==
    /\ call.method = "expandSemanticTerms"
    /\ ~call.returned
    /\ call' = [call EXCEPT !.returned = TRUE] @@
                (IF ExpandThrows(call.words)
                 THEN [threw |-> TRUE, result |-> <<>>]
                 ELSE [threw |-> FALSE, result |-> expandSemanticTerms(call.words)])
    /\ UNCHANGED <<serviceVars, app>>

\* getEmbedding(text) with documentId undefined
CallGetEmbedding ==
    /\ call.method = "getEmbedding"
    /\ ~call.returned
    /\ LET embedding == getEmbedding(call.text, NoId)
       IN  /\ call' = [call EXCEPT !.returned = TRUE] @@
                       [threw |-> embedding.threw, result |-> embedding.vector]
           /\ globalWordFreq' = embedding.globalWordFreq
           /\ embDocuments' = embedding.embDocuments
           /\ totalDocuments' = embedding.totalDocuments
    /\ UNCHANGED <<documents, vocabulary, nextId, calls, last, results, failedIds,
                   tasks, running, app>>

NextVectorize == CallExpandSemanticTerms \/ CallGetEmbedding

SpecVectorize == InitVectorize /\ [][NextVectorize]_vars

(***************************************************************************)
(* The App component.  app holds the React state the searches touch:       *)
(* isConfigured (useRovo), searchQuery, the debounce timer,                *)
(* debouncedSearchQuery, the length of uploadedDocuments, rovoResults and  *)
(* documentSearchResults, and the requests that have been started and have *)
(* not returned.  rovoResults is kept as the request that produced it,     *)
(* documentSearchResults as the query it was searched for and the items.   *)
(* An effect runs in the step that changes one of its dependencies.  The   *)
(* awaits of the document search settle without a network round trip (the *)
(* module is loaded by the upload before uploadedDocuments.length > 0), so *)
(* its continuation runs before the next timer, input or network event;    *)
(* rovo.search and rovo.getRecentContent await a fetch and return in any   *)
(* order.                                                                  *)
(***************************************************************************)
NoTimer == [pending |-> FALSE, query |-> ""]
NoRovoResults == [kind |-> "none", query |-> ""]
NoDocumentResults == [searched |-> FALSE, query |-> "", items |-> <<>>]

Mounted(isConfigured) ==
    [mounted |-> TRUE,
     isConfigured |-> isConfigured,
     searchQuery |-> "",
     timer |-> NoTimer,
     debouncedSearchQuery |-> "",
     uploadedDocuments |-> 0,
     rovoResults |-> NoRovoResults,
     documentSearchResults |-> NoDocumentResults,
     inflight |-> {},
     started |-> 0,
     events |-> 0]

Request(a, kind, query) == [id |-> a.started + 1, kind |-> kind, query |-> query]

Start(a, kind, query) ==
    [a EXCEPT !.inflight = @ \cup {Request(a, kind, query)}, !.started = @ + 1]

\* the loadRecentContent effect
loadRecentContent(a) ==
    IF a.isConfigured /\ a.debouncedSearchQuery = ""
    THEN Start(a, "getRecentContent", "")
    ELSE a

\* the performSearch effect, up to its first await
performSearch(a) ==
    IF Trim(a.debouncedSearchQuery) # "" /\ a.isConfigured
    THEN Start(a, "search", a.debouncedSearchQuery)
    ELSE IF Trim(a.debouncedSearchQuery) # ""
         THEN IF a.uploadedDocuments > 0
              THEN Start(a, "searchDocuments", a.debouncedSearchQuery)
              ELSE [a EXCEPT !.documentSearchResults = NoDocumentResults]
         ELSE [a EXCEPT !.documentSearchResults = NoDocumentResults]

\* a document search has started and its continuation has not run
DocumentSearchPending == \E r \in app.inflight : r.kind = "searchDocuments"

\* the list the page shows, with no filter active: the document results in
\* front of the Rovo results or of the mock data
filteredResults ==
    [documents |-> app.documentSearchResults.items,
     rest |-> IF app.isConfigured THEN app.rovoResults
              ELSE [kind |-> "mock", query |-> app.debouncedSearchQuery]]

AppQueries == {"", "apples", "fruit"}
AppFiles == {FileA, FileB}

\* what the user does in a run: changes of the query and uploads
MaxEvents == 3

InitApp ==
    /\ Constructed
    /\ call = NoDirectCall
    /\ \E isConfigured \in BOOLEAN :
           app = loadRecentContent(performSearch(Mounted(isConfigured)))

\* handleSearch(query), and the debounce effect: clearTimeout, setTimeout
HandleSearch ==
    /\ ~DocumentSearchPending
    /\ app.events < MaxEvents
    /\ \E query \in AppQueries \ {app.searchQuery} :
           app' = [app EXCEPT !.searchQuery = query,
                              !.timer = [pending |-> TRUE, query |-> query],
                              !.events = @ + 1]
    /\ UNCHANGED <<serviceVars, call>>

\* the timer fires: setDebouncedSearchQuery(searchQuery), and the effects
\* that depend on debouncedSearchQuery
DebounceFires ==
    /\ ~DocumentSearchPending
    /\ app.timer.pending
    /\ LET a == [app EXCEPT !.timer = NoTimer,
                            !.debouncedSearchQuery = app.timer.query]
       IN  app' = IF app.timer.query = app.debouncedSearchQuery THEN a
                  ELSE performSearch(loadRecentContent(a))
    /\ UNCHANGED <<serviceVars, call>>

\* DocumentUpload.handleFileUpload and handleDocumentUploaded, and the
\* performSearch effect, which depends on uploadedDocuments.length
UploadFile ==
    /\ ~DocumentSearchPending
    /\ app.events < MaxEvents
    /\ \E file \in AppFiles : uploadDocument(file)
    /\ LET a == [app EXCEPT !.events = @ + 1]
       IN  app' = IF last'.ok
                  THEN performSearch([a EXCEPT !.uploadedDocuments = @ + 1])
                  ELSE a

\* const searchResults = await rovo.search(...); setRovoResults(searchResults)
RovoSearchReturns ==
    /\ ~DocumentSearchPending
    /\ \E r \in app.inflight :
           /\ r.kind = "search"
           /\ app' = [app EXCEPT !.inflight = @ \ {r},
                                  !.rovoResults = [kind |-> "search", query |-> r.query]]
    /\ UNCHANGED <<serviceVars, call>>

\* const recentContent = await rovo.getRecentContent(); setRovoResults(...)
RecentContentReturns ==
    /\ ~DocumentSearchPending
    /\ \E r \in app.inflight :
           /\ r.kind = "getRecentContent"
           /\ app' = [app EXCEPT !.inflight = @ \ {r},
                                  !.rovoResults = [kind |-> "recent", query |-> ""]]
    /\ UNCHANGED <<serviceVars, call>>

\* await import(...); await simpleDocumentService.searchDocuments(...);
\* setDocumentSearchResults(documentResults)
DocumentSearchReturns ==
    \E r \in app.inflight :
        /\ r.kind = "searchDocuments"
        /\ searchDocuments(r.query)
        /\ app' = [app EXCEPT !.inflight = @ \ {r},
                               !.documentSearchResults =
                                   [searched |-> TRUE, query |-> r.query,
                                    items |-> results']]

NextApp ==
    \/ HandleSearch
    \/ DebounceFires
    \/ UploadFile
    \/ RovoSearchReturns
    \/ RecentContentReturns
    \/ DocumentSearchReturns

SpecApp == InitApp /\ [][NextApp]_vars

(***************************************************************************)
(* Properties of the calls                                                 *)
(***************************************************************************)
\* the positions of the results, and the stored document of an id
ResultIds == {results[j].document : j \in 1..Len(results)}

PositionOf(id) == CHOOSE i \in 1..Len(documents) : documents[i].id = id

\* C1: every result returned by searchDocuments has a score between 0 and
\* 1 (0 and ScoreScale in the model's unit), whatever its searchType.
ScoresWithinUnit ==
    \A j \in 1..Len(results) :
        /\ results[j].searchType \in {"semantic", "keyword", "hybrid"}
        /\ results[j].score >= 0
        /\ results[j].score <= ScoreScale

\* C3: a search with the empty or a whitespace-only query returns the
\* empty list and changes neither the document store nor the embedding
\* service's term statistics.
BlankQueryIsInert ==
    [][(last'.op = "search" /\ \A i \in 1..Len(last'.query) :
                                   CharAt(last'.query, i) \in WhitespaceSet)
         => /\ results' = <<>>
            /\ documents' = documents
            /\ embDocuments' = embDocuments
            /\ globalWordFreq' = globalWordFreq
            /\ totalDocuments' = totalDocuments
            /\ vocabulary' = vocabulary]_vars

\* a whitespace-only search has returned, on a store that holds documents
\* and statistics
BlankQueryOnFilledStore ==
    /\ last.op = "search"
    /\ last.query = " "
    /\ results = <<>>
    /\ Len(documents) > 0
    /\ DOMAIN globalWordFreq # {}

\* C4: a stored document with empty extractedText and empty keywords is
\* never contained in the result of a search.
EmptyDocumentNeverReturned ==
    \A i \in 1..Len(documents) :
        (documents[i].extractedText = "" /\ documents[i].keywords = <<>>)
            => documents[i].id \notin ResultIds

\* C5: a document whose text extraction failed is stored with the zero
\* vector and no keywords, and no search returns it.
FailedExtractionExcluded ==
    /\ (last.op = "upload" /\ last.id \in failedIds)
           => last.ok /\ \E i \in 1..Len(documents) : documents[i].id = last.id
    /\ \A i \in 1..Len(documents) :
           documents[i].id \in failedIds
               => /\ documents[i].embedding.defined
                  /\ documents[i].embedding.vector = ZeroVector
                  /\ documents[i].keywords = <<>>
                  /\ documents[i].id \notin ResultIds

\* the text after the last dot of a file name, in lower case
ExtensionOf(name) ==
    LET dots == {i \in 1..Len(name) : CharAt(name, i) = "."}
        from == IF dots = {} THEN 1 ELSE 1 + CHOOSE i \in dots : \A j \in dots : j <= i
    IN  ToLowerCase(SubSeq(name, from, Len(name)))

\* C6: an upload is rejected exactly when the file's extension is not one
\* of pdf, docx, csv, txt, xlsx, pptx, and a rejected upload leaves the
\* document store and the embedding service's state as they were.
UnsupportedTypeRejected ==
    [][last'.op = "upload"
         => /\ last'.ok <=> ExtensionOf(last'.file) \in {"pdf", "docx", "csv", "txt",
                                                         "xlsx", "pptx"}
            /\ ~last'.ok => /\ documents' = documents
                            /\ embDocuments' = embDocuments
                            /\ globalWordFreq' = globalWordFreq
                            /\ totalDocuments' = totalDocuments
                            /\ vocabulary' = vocabulary]_vars

\* an upload has been rejected on a store that holds documents
RejectedOnFilledStore ==
    /\ last.op = "upload"
    /\ ~last.ok
    /\ Len(documents) > 0
    /\ totalDocuments > 0

\* C7: after any sequence of completed calls, totalDocuments equals the
\* number of documents in the document store.
TotalDocumentsIsStoreSize == totalDocuments = Len(documents)

\* C8: the same query run twice in a row, the store not modified in
\* between, returns the same documents in the same order with the same
\* scores and searchTypes.
RepeatedSearchSameResults ==
    [][(last'.op = "search" /\ last'.repeat) => results' = results]_vars

\* a query has been run twice in a row and returned documents
RepeatedSearchWithResults ==
    /\ last.op = "search"
    /\ last.repeat
    /\ Len(results) > 0

\* C10: with A ("apples bananas oranges") and B ("quarterly revenue
\* numbers") in the store, a search for "fruit" returns A as semantic or
\* hybrid with a score above 0.15, and does not return B.
FruitFindsAOnly ==
    (/\ last.op = "search"
     /\ last.query = "fruit"
     /\ Len(documents) = 2
     /\ {documents[i].extractedText : i \in 1..2} = {FileA.text, FileB.text})
        => \A i \in 1..2 :
               IF documents[i].extractedText = FileA.text
               THEN \E j \in 1..Len(results) :
                        /\ results[j].document = documents[i].id
                        /\ results[j].searchType \in {"semantic", "hybrid"}
                        /\ results[j].score > SemanticThreshold
               ELSE documents[i].id \notin ResultIds

\* what the loop of the last search computed for each stored document
LastScores ==
    LET embedding == getEmbedding(last.query, NoId)
        queryEmbedding == IF embedding.threw THEN Undefined
                          ELSE [defined |-> TRUE, vector |-> embedding.vector]
    IN  <<>> \o [i \in 1..Len(documents) |->
                    ScoreDocument(documents[i], last.query, queryEmbedding)]

\* C2: a search returns at most 10 results: the 10 highest-scoring
\* accepted documents (all of them when fewer than 11 are accepted), in
\* non-increasing score order, two results of equal score in the order in
\* which their documents were inserted.
TopTenRanked ==
    (last.op = "search" /\ Trim(last.query) # "")
        => LET scored == LastScores
               accepted == {i \in 1..Len(documents) : scored[i].included}
               n == Len(results)
               at == <<>> \o [j \in 1..n |-> PositionOf(results[j].document)]
           IN  /\ n <= 10
               /\ n = IF Cardinality(accepted) < 11 THEN Cardinality(accepted) ELSE 10
               /\ \A j \in 1..n : at[j] \in accepted /\ results[j] = scored[at[j]].result
               /\ \A j, k \in 1..n :
                      j < k => \/ results[j].score > results[k].score
                               \/ results[j].score = results[k].score /\ at[j] < at[k]
               /\ \A i \in accepted :
                      i \notin {at[j] : j \in 1..n}
                          => \A j \in 1..n :
                                 \/ scored[i].result.score < results[j].score
                                 \/ scored[i].result.score = results[j].score /\ at[j] < i

\* a search has accepted more than 10 documents and returned 10, some
\* with equal and some with different scores, out of insertion order
MoreThanTenAccepted ==
    /\ last.op = "search"
    /\ Cardinality({i \in 1..Len(documents) : LastScores[i].included}) > 10
    /\ Len(results) = 10
    /\ \E j, k \in 1..Len(results) : j < k /\ results[j].score = results[k].score
    /\ \E j, k \in 1..Len(results) :
           /\ j < k
           /\ results[j].score > results[k].score
           /\ PositionOf(results[j].document) > PositionOf(results[k].document)

\* while a search iterates, the document collection is the one it began
\* with, and what it has visited is the beginning of that collection
ScanIsolated ==
    \A t \in DOMAIN tasks :
        tasks[t].pc = "scanning"
            => /\ documents = tasks[t].snapshot
               /\ tasks[t].scanned = SubSeq(tasks[t].snapshot, 1, tasks[t].index)

\* a search that has returned has visited exactly the collection it began
\* with
ScanCoversSnapshot ==
    \A t \in DOMAIN tasks :
        (tasks[t].op = "search" /\ tasks[t].pc = "done")
            => tasks[t].scanned = tasks[t].snapshot

\* C9: with calls outstanding at the same time, no insert or delete takes
\* effect while a search iterates, every search scores exactly the
\* documents the store held at one instant, and each document it sees has
\* its text, keywords and vector set.
SearchSeesCompleteSnapshot ==
    /\ ScanIsolated
    /\ ScanCoversSnapshot
    /\ \A t \in DOMAIN tasks :
           \A i \in 1..Len(tasks[t].scanned) :
               /\ tasks[t].scanned[i].extractedText \in STRING
               /\ tasks[t].scanned[i].keywords \in Seq(STRING)
               /\ tasks[t].scanned[i].embedding.defined

\* C11: a stored document with filename "Quarterly_Report.pdf" and text
\* "revenue is up" is returned by a search for "Quarterly" with searchType
\* keyword and a score of at least 0.3.
QuarterlyFoundByFilename ==
    (last.op = "search" /\ last.query = "Quarterly")
        => \A i \in 1..Len(documents) :
               (/\ documents[i].filename = "Quarterly_Report.pdf"
                /\ EndsWith(documents[i].extractedText, "revenue is up"))
                   => \E j \in 1..Len(results) :
                          /\ results[j].document = documents[i].id
                          /\ results[j].searchType = "keyword"
                          /\ results[j].score * 10 >= 3 * ScoreScale

\* the search for "Quarterly" has returned the document whose text is
\* exactly "revenue is up", next to another document
QuarterlySearched ==
    /\ last.op = "search"
    /\ last.query = "Quarterly"
    /\ Len(documents) > 1
    /\ \E i \in 1..Len(documents) :
           /\ documents[i].filename = "Quarterly_Report.pdf"
           /\ documents[i].extractedText = "revenue is up"
           /\ documents[i].id \in ResultIds
\* C12: cosineSimilarity(v, v) = 1 for every non-zero vector v,
\* cosineSimilarity(v, z) = 0 when z is the zero vector, the result is always
\* within [0,1], and vectors of different lengths give 0.
CosineContract ==
    (call.method = "cosineSimilarity" /\ call.returned)
        => LET a == call.vectorA
               b == call.vectorB
               r == call.result
           IN  /\ ~r.nan
               /\ r.value \in 0..Scale
               /\ (a = b /\ ~IsZeroVector(a.digits)) => r.value = Scale
               /\ IsZeroVector(b.digits) => r.value = 0
               /\ Len(a.digits) # Len(b.digits) => r.value = 0

\* C13: for every input token sequence the output of expandSemanticTerms
\* contains every input token, and expanding <<"fruit">> yields a result
\* containing "apple" and "banana".
ExpansionContainsInput ==
    (call.method = "expandSemanticTerms" /\ call.returned)
        => /\ ~call.threw
           /\ SeqToSet(call.words) \subseteq SeqToSet(call.result)
           /\ call.words = <<"fruit">>
                  => {"apple", "banana"} \subseteq SeqToSet(call.result)

\* C14: getEmbedding never raises an error: for every text it completes and
\* returns a vector of exactly 100 numbers.
GetEmbeddingNeverThrows ==
    (call.method = "getEmbedding" /\ call.returned)
        => /\ ~call.threw
           /\ Len(call.result) = Dim
           /\ \A k \in 1..Len(call.result) : call.result[k] \in Int

\* C20: concept expansion makes one pass over the original input tokens: a
\* term is added only if it is a related term of an input token that is a
\* concept key, or a concept key whose related terms contain an input token;
\* added terms are not expanded themselves (expanding <<"apple">> adds
\* "fruit" and "food" but not "banana").
OnePassExpansion ==
    (call.method = "expandSemanticTerms" /\ call.returned /\ ~call.threw)
        => /\ \A term \in SeqToSet(call.result) \ SeqToSet(call.words) :
                  \E i \in 1..Len(call.words) :
                      \/ /\ IsConcept(call.words[i])
                         /\ term \in SeqToSet(semanticMappings[call.words[i]])
                      \/ /\ IsConcept(term)
                         /\ call.words[i] \in SeqToSet(semanticMappings[term])
           /\ call.words = <<"apple">>
                  => /\ {"fruit", "food"} \subseteq SeqToSet(call.result)
                     /\ "banana" \notin SeqToSet(call.result)

\* the expansion of <<"apple">> has returned with the concepts added
AppleExpanded ==
    /\ call.method = "expandSemanticTerms"
    /\ call.returned
    /\ call.words = <<"apple">>
    /\ ~call.threw
    /\ "fruit" \in SeqToSet(call.result)

\* C17: the global term counts change only when a document is inserted: a
\* searchDocuments call leaves every term's count unchanged and
\* deleteDocument never decrements a count.
CountsChangeOnlyOnInsert ==
    [][(calls' # calls /\ last'.op \in {"search", "delete"})
           => globalWordFreq' = globalWordFreq]_vars

\* the count n as a value of globalWordFreq
Count(n) == [logNum |-> 1, logDen |-> 1, plus |-> n]

\* the uploaded documents whose term map contains the word
DocumentsWith(word) == {id \in DOMAIN embDocuments : word \in DOMAIN embDocuments[id].tfidf}

\* C18: after any sequence of uploads, for every term the global count
\* equals the number of uploaded documents whose term map contains the term.
CountIsDocumentFrequency ==
    /\ \A id \in DOMAIN embDocuments : DOMAIN embDocuments[id].tfidf \subseteq DOMAIN globalWordFreq
    /\ \A word \in DOMAIN globalWordFreq :
           globalWordFreq[word] = Count(Cardinality(DocumentsWith(word)))

\* the query vector as getEmbedding computes it from the statistics of the
\* present state
QueryEmbeddingNow(query) ==
    LET embedding == getEmbedding(query, NoId)
    IN  IF embedding.threw THEN Undefined
        ELSE [defined |-> TRUE, vector |-> embedding.vector]

Idle == app.mounted /\ ~app.timer.pending /\ app.inflight = {}

\* C15: once typing has stopped and every started search has completed, the
\* results held by the App (rovoResults when Rovo is configured,
\* documentSearchResults otherwise) are those of the latest debounced
\* query, never those of an earlier query whose search completed later.
ResultsAreOfLatestQuery ==
    Idle =>
        /\ (app.isConfigured /\ Trim(app.debouncedSearchQuery) # "")
               => app.rovoResults = [kind |-> "search", query |-> app.debouncedSearchQuery]
        /\ ~app.isConfigured
               => IF Trim(app.debouncedSearchQuery) # "" /\ app.uploadedDocuments > 0
                  THEN /\ app.documentSearchResults.searched
                       /\ app.documentSearchResults.query = app.debouncedSearchQuery
                  ELSE app.documentSearchResults = NoDocumentResults

\* C16: for a non-empty debounced query with at least one uploaded document,
\* performSearch runs searchDocuments for that query and its matches are
\* part of the displayed result list, also when Rovo is configured.
DocumentsAlongsideResults ==
    (Idle /\ Trim(app.debouncedSearchQuery) # "" /\ app.uploadedDocuments > 0)
        => /\ app.documentSearchResults.searched
           /\ app.documentSearchResults.query = app.debouncedSearchQuery
           /\ filteredResults.documents
                  = RankDocuments(documents, app.debouncedSearchQuery,
                                  QueryEmbeddingNow(app.debouncedSearchQuery))

\* the expanded tokens of a text before duplicates are removed
ExpandedMultiset(text) ==
    LET words == preprocessText(text)
    IN  words \o ExpansionOf(words)

\* C21: the term frequency used to build the vector of a stored document is
\* count(term) / totalExpandedTokenCount, both counts taken over the
\* expanded tokens before duplicates are removed, so a term that occurs
\* twice has a higher frequency than a term that occurs once.
FrequencyCountsDuplicates ==
    \A i \in 1..Len(documents) :
        documents[i].id \in DOMAIN embDocuments
            => LET tfidf == embDocuments[documents[i].id].tfidf
                   expanded == ExpandedMultiset(documents[i].extractedText)
               IN  \A term \in DOMAIN tfidf :
                       tfidf[term].num * Len(expanded)
                           = CountIn(expanded, term) * tfidf[term].den

\* h = h * 31 + charCode modulo 2^32, as four bytes, most significant first
RECURSIVE RollingBytes(_, _, _)
RollingBytes(word, i, b) ==
    IF i > Len(word) THEN b
    ELSE LET b0 == 31 * b[4] + CharCode(CharAt(word, i))
             b1 == 31 * b[3] + b0 \div 256
             b2 == 31 * b[2] + b1 \div 256
             b3 == 31 * b[1] + b2 \div 256
         IN  RollingBytes(word, i + 1, <<b3 % 256, b2 % 256, b1 % 256, b0 % 256>>)

\* abs(h) mod 100 for the signed 32-bit h of these bytes: 2^24, 2^16, 2^8 and
\* 2^32 are 16, 36, 56 and 96 modulo 100
AbsHashMod100(word) ==
    LET b == RollingBytes(word, 1, <<0, 0, 0, 0>>)
        unsigned == (16 * b[1] + 36 * b[2] + 56 * b[3] + b[4]) % 100
    IN  IF b[1] >= 128 THEN (96 + 100 - unsigned) % 100 ELSE unsigned

\* C22: for every term the bucket index hashWord(term) % 100 is an integer
\* in [0, 100) and equals abs(h) mod 100, h being the rolling hash
\* h = h * 31 + charCode truncated to a signed 32-bit integer after every
\* character, also when the hash overflows or equals -2^31.
BucketIsAbsHashMod100 ==
    (call.method = "hashWord" /\ call.returned)
        => /\ call.vectorIndex \in 0..(Dim - 1)
           /\ call.vectorIndex = AbsHashMod100(call.word)

\* hashWord has returned for a word whose hash is -2^31
HashedMinInt ==
    /\ call.method = "hashWord"
    /\ call.returned
    /\ call.hash + 1 = 0 - 2147483647
    /\ call.vectorIndex = 48

\* the cosine similarity and the keyword score of a stored document for the
\* query of the last search
ScoresOf(document) == ScoreDocument(document, last.query, QueryEmbeddingNow(last.query))

\* the result of the last search for a document
ResultFor(id) == results[CHOOSE j \in 1..Len(results) : results[j].document = id]

\* C23: with effectiveSemanticScore = semanticScore if semanticScore > 0.18
\* else 0: if effectiveSemanticScore > 0 and keywordScore > 0 the result is
\* hybrid with score 0.7 * effectiveSemanticScore + 0.3 * keywordScore; else
\* if effectiveSemanticScore > 0 it is semantic with that score; else if
\* keywordScore > 0 it is keyword with score min(keywordScore, 1.0); else
\* the document is not in the results.
ClassifiedByScores ==
    (last.op = "search" /\ Trim(last.query) # "" /\ Len(documents) <= MaxResults)
        => \A i \in 1..Len(documents) :
               LET id == documents[i].id
                   semanticScore == ScoresOf(documents[i]).semanticScore
                   keywordScore == ScoresOf(documents[i]).keywordScore
                   effective == IF semanticScore * 100 > 18 * Scale THEN semanticScore ELSE 0
               IN  IF effective > 0 /\ keywordScore > 0
                   THEN /\ id \in ResultIds
                        /\ ResultFor(id).searchType = "hybrid"
                        /\ ResultFor(id).score * Scale
                               = (7 * effective + 3 * keywordScore) * (ScoreScale \div 10)
                   ELSE IF effective > 0
                   THEN /\ id \in ResultIds
                        /\ ResultFor(id).searchType = "semantic"
                        /\ ResultFor(id).score * Scale = effective * ScoreScale
                   ELSE IF keywordScore > 0
                   THEN /\ id \in ResultIds
                        /\ ResultFor(id).searchType = "keyword"
                        /\ ResultFor(id).score * Scale = Min(keywordScore, Scale) * ScoreScale
                   ELSE id \notin ResultIds

\* a search has returned a hybrid result and left another document out
HybridAndNone ==
    /\ last.op = "search"
    /\ \E j \in 1..Len(results) : results[j].searchType = "hybrid"
    /\ \E i \in 1..Len(documents) : documents[i].id \notin ResultIds

\* the sentences of a document's text that contain the lowercased query of
\* the last search, in document order
MatchingSentences(document) ==
    SelectSeq(Sentences(document.extractedText),
              LAMBDA sentence : Includes(ToLowerCase(sentence), ToLowerCase(last.query)))

\* 0.3 for the filename, 0.15 for every matching keyword and 0.2 for every
\* matching sentence, in 1/Scale
SignalSum(document) ==
    LET queryLower == ToLowerCase(last.query)
    IN  (IF Includes(ToLowerCase(document.filename), queryLower) THEN 300 ELSE 0)
        + 150 * Cardinality({k \in 1..Len(document.keywords) :
                                \/ Includes(ToLowerCase(document.keywords[k]), queryLower)
                                \/ Includes(queryLower, ToLowerCase(document.keywords[k]))})
        + 200 * Len(MatchingSentences(document))

\* C24: keywordScore is the uncapped sum 0.3 * [filename contains the
\* lowercased query] + 0.15 * (keywords that contain the query or are
\* contained in it) + 0.2 * (non-empty sentences containing the lowercased
\* query, every one of them, also beyond the three recorded); the cap at
\* 1.0 is applied afterwards and only to a keyword-type score.
KeywordScoreIsUncappedSum ==
    (last.op = "search" /\ Trim(last.query) # "")
        => /\ \A i \in 1..Len(documents) :
                  ScoresOf(documents[i]).keywordScore = SignalSum(documents[i])
           /\ \A j \in 1..Len(results) :
                  LET document == documents[PositionOf(results[j].document)]
                      semanticScore == ScoresOf(document).semanticScore
                  IN  /\ results[j].searchType = "keyword"
                         => results[j].score * Scale
                                = Min(SignalSum(document), Scale) * ScoreScale
                      /\ results[j].searchType = "hybrid"
                         => results[j].score * Scale
                                = (7 * semanticScore + 3 * SignalSum(document))
                                      * (ScoreScale \div 10)
                      /\ results[j].searchType = "semantic" => SignalSum(document) = 0

\* a hybrid result for a document with more than three matching sentences
\* and a keyword score above 1
HybridAboveCap ==
    /\ last.op = "search"
    /\ \E j \in 1..Len(results) :
           /\ results[j].searchType = "hybrid"
           /\ Len(MatchingSentences(documents[PositionOf(results[j].document)])) > MaxSections
           /\ SignalSum(documents[PositionOf(results[j].document)]) > Scale

\* C25: for every result, matchedSections has at most 3 entries, and they
\* are the first (up to three) sentences of the document's text, in
\* document order, that contain the lowercased query; a result whose text
\* has no such sentence has an empty matchedSections.
SectionsAreFirstThree ==
    (last.op = "search" /\ Trim(last.query) # "")
        => \A j \in 1..Len(results) :
               LET sections == results[j].matchedSections
                   matching == MatchingSentences(documents[PositionOf(results[j].document)])
               IN  /\ Len(sections) <= 3
                   /\ Len(sections) = Min(3, Len(matching))
                   /\ \A k \in 1..Len(sections) : sections[k].text = Trim(matching[k])

\* a result with three sections out of five matching sentences, the
\* sentence without the query skipped
ThreeOfFiveSections ==
    /\ last.op = "search"
    /\ \E j \in 1..Len(results) :
           /\ Len(results[j].matchedSections) = 3
           /\ Len(MatchingSentences(documents[PositionOf(results[j].document)])) = 5
           /\ results[j].matchedSections[2].text = "green apples"

\* C27: before the top-10 cut, a document is left out of the results
\* exactly when its cosine similarity to the query is <= 0.18 and its
\* keywordScore is 0: the acceptance thresholds (0.15 semantic, 0.10 hybrid,
\* 0.10 keyword) never exclude a classified document.
LeftOutOnlyWithoutSignal ==
    (last.op = "search" /\ Trim(last.query) # "" /\ Len(documents) <= MaxResults)
        => \A i \in 1..Len(documents) :
               documents[i].id \notin ResultIds
                   <=> /\ ScoresOf(documents[i]).semanticScore * 100 <= 18 * Scale
                       /\ SignalSum(documents[i]) = 0

\* a search has returned a keyword result with a score below 0.4 and left
\* another document out
LowKeywordKept ==
    /\ last.op = "search"
    /\ \E j \in 1..Len(results) :
           /\ results[j].searchType = "keyword"
           /\ results[j].score * 10 < 4 * ScoreScale
    /\ \E i \in 1..Len(documents) : documents[i].id \notin ResultIds

\* the lowercase tokens of a text
LowercaseTokens(text) ==
    Split(ReplaceNonWord(ToLowerCase(text), 1, Len(text)), WhitespaceSet)

\* C26: for every stored document, keywords is a sequence of at most 8
\* pairwise distinct lowercase tokens of its text, ordered by non-increasing
\* occurrence count, and contains no stop word.
KeywordsAreTopEight ==
    \A i \in 1..Len(documents) :
        LET keywords == documents[i].keywords
            tokens == LowercaseTokens(documents[i].extractedText)
        IN  /\ Len(keywords) <= 8
            /\ \A k \in 1..Len(keywords) :
                   /\ keywords[k] \in SeqToSet(tokens)
                   /\ ~isStopWord(keywords[k])
                   /\ \A l \in (k + 1)..Len(keywords) :
                          /\ keywords[l] # keywords[k]
                          /\ CountIn(tokens, keywords[k]) >= CountIn(tokens, keywords[l])

\* C28: getEmbedding returns the all-zero vector exactly when preprocessing
\* yields no token; for every other text all 100 components are >= 0 and at
\* least one is > 0.
ZeroVectorOnlyWithoutTokens ==
    (call.method = "getEmbedding" /\ call.returned)
        => /\ ~call.threw
           /\ Len(call.result) = Dim
           /\ call.result = ZeroVector <=> preprocessText(call.text) = <<>>
           /\ preprocessText(call.text) # <<>>
                  => /\ \A k \in 1..Dim : call.result[k] >= 0
                     /\ \E k \in 1..Dim : call.result[k] > 0

\* the documents of a store
StoredDocuments(docs) == {docs[i] : i \in 1..Len(docs)}

\* C29: deleteDocument(id) returns true exactly when id was in the store,
\* removes that document and no other, and a second deleteDocument(id) returns
\* false; getDocument(id) then returns null and no searchDocuments call
\* started after the delete returns that document.
DeleteRemovesOnlyThatDocument ==
    [][/\ \A id \in 1..nextId : ~MapHas(documents, id) => ~MapHas(documents', id)
       /\ (last'.op = "delete" /\ calls' = calls + 1)
              => /\ last'.ok <=> MapHas(documents, last'.id)
                 /\ getDocument(documents', last'.id) = Null
                 /\ StoredDocuments(documents')
                        = {d \in StoredDocuments(documents) : d.id # last'.id}
                 /\ (last.op = "delete" /\ last.id = last'.id) => ~last'.ok
       /\ (last'.op = "search" /\ calls' = calls + 1)
              => \A k \in 1..Len(results') : MapHas(documents, results'[k].document)
      ]_vars

DeletedOneOfTwo ==
    /\ last.op = "delete"
    /\ last.ok
    /\ Len(documents) = 1
    /\ documents[1].id # last.id
    /\ getDocument(documents, last.id) = Null

\* getEmbedding(text) raises an error
EmbeddingThrows(text) == ExpandThrows(preprocessText(text))

\* C30: an error raised by getEmbedding never makes uploadDocument or
\* searchDocuments fail: the upload still stores the document (without
\* embedding) and returns success, and the search still returns results,
\* scoring every document with semanticScore 0 so that every result has
\* searchType keyword.
EmbeddingErrorFallsBackToKeywords ==
    /\ \A file \in FallbackFiles :
           (/\ last.op = "upload"
            /\ last.file = file.name
            /\ getFileExtension(file.name) # Null
            /\ EmbeddingThrows(realTextExtraction(file, getFileExtension(file.name))))
               => /\ last.ok
                  /\ MapHas(documents, last.id)
                  /\ getDocument(documents, last.id).filename = file.name
                  /\ ~getDocument(documents, last.id).embedding.defined
    /\ (last.op = "search" /\ Trim(last.query) # "" /\ EmbeddingThrows(last.query))
           => /\ ResultIds = {documents[i].id : i \in {k \in 1..Len(documents) :
                                                          SignalSum(documents[k]) > 0}}
              /\ \A j \in 1..Len(results) :
                     /\ results[j].searchType = "keyword"
                     /\ results[j].score * Scale
                            = Min(SignalSum(documents[PositionOf(results[j].document)]), Scale)
                                  * ScoreScale

\* a search whose query embedding failed has returned a document stored
\* without embedding and a document stored with one
KeywordResultsAfterError ==
    /\ last.op = "search"
    /\ EmbeddingThrows(last.query)
    /\ \E i, j \in 1..Len(documents) :
           /\ documents[i].id \in ResultIds
           /\ documents[j].id \in ResultIds
           /\ ~documents[i].embedding.defined
           /\ documents[j].embedding.defined

=============================================================================
